---- MODULE Spec2Model ----
(***************************************************************************)
(* A model of the LinkedIn agent backend's pipeline:                       *)
(*   - the LinkedIn credential refresh done by the worker tasks            *)
(*     sync_profile / search_jobs and by LinkedInService._ensure_valid_-   *)
(*     token, against a LinkedIn token endpoint,                           *)
(*   - the application status handling of AutomationService and of the    *)
(*     application service,                                                *)
(*   - the in-memory and Pinecone vector index of VectorStoreService.      *)
(* Each part has its own specification (SpecCred, SpecApp, SpecVec) over   *)
(* the shared variables; Spec is their interleaving.                       *)
(***************************************************************************)
EXTENDS Integers, Sequences, FiniteSets, TLC

\* ------------------------------------------------------------------ bounds
NumUsers == 1
NumWorkers == 2
MaxTime == 2
MaxTok == 4
NumJobs == 2
MaxApps == 2
NumProfiles == 1
MaxLimit == 2
MaxText == 3
MaxDay == 3
MaxRows == 2
MaxCleanups == 2
NumAccounts == 2
MaxFanouts == 2
MaxDeliveries == 3
MaxBeats == 1
NumRequests == 2
times == 2
seconds == 2

Users == 1..NumUsers
Workers == 1..NumWorkers
JobIds == 1..NumJobs
AppIds == 1..MaxApps
ProfileIds == 1..NumProfiles

\* None for a token column (NULL) and for linkedin_token_expires_at (NULL).
NoToken == 0
NoTime == -1

\* expires_in of the token endpoint's answer, in clock ticks.
ExpiresIn == 1

VARIABLES
    now,            \* the clock read by time.time() / datetime.utcnow()
    users,          \* users table: linkedin_access_token, linkedin_refresh_token, linkedin_token_expires_at
    srvRefresh,     \* LinkedIn: the refresh token it accepts for a member (NoToken: none)
    nextTok,        \* LinkedIn: the last token it issued
    pc,             \* where each worker is in its token acquisition
    wkind,          \* what the worker runs: a task or a LinkedInService call
    wuser,          \* the user_id argument
    wlocal,         \* the User object the worker loaded through its session
    wtoken,         \* token_data returned by refresh_access_token
    wseen,          \* the expires_at the run found expired (NoTime: it found none)
    wresult,        \* the "status" of the dict the run returned
    werror,         \* why the run returned an error
    tstate,         \* Celery's state of the task instance
    attempts,       \* how many times the handler was run for the task instance
    credInvalid,    \* history: LinkedIn rejected the member's refresh token as invalid
    startedInvalid, \* history: the run loaded the user after such a rejection
    session,        \* the run holds a session it got from SessionLocal() and has not closed
    jobs,           \* jobs table: the version of each job's text (NoJob: no row)
    apps,           \* applications: status and external_application_id of each
    appResult,      \* the last application operation and what it returned
    profiles,       \* profiles table: the version of each profile's text (NoJob: no row)
    vector_store_provider,  \* settings.VECTOR_STORE_PROVIDER
    vectors,        \* in-memory store: self.vectors, a dict in insertion order
    metadata,       \* in-memory store: self.metadata
    index,          \* the Pinecone index: per namespace, the entry of each id
    vecOp,          \* the last index operation, and whether it repeats the one before
    results,        \* what the last query returned
    llm_response,   \* what the LLM's generate_text gave for the last document request
    cover_letter,   \* what generate_cover_letter returned for it
    today,          \* the day datetime.utcnow() falls in
    rows,           \* jobs, applications, resumes, cover_letters: created_at, updated_at of each row
    cleanup,        \* the runs of cleanup_old_data so far, and what the last returned
    accounts,       \* users table as the admin tasks read it: no row, a user, a user with linkedin_access_token
    queue,          \* the broker: the child tasks enqueued by .delay()
    fanout,         \* the admin fan-out runs so far, what the last returned and what it enqueued
    profileRows,    \* profiles table as the sync writes it: user_id and data of each row, in insertion order
    spc,            \* where each worker is in its profile sync
    srun,           \* the sync a worker runs: user, entry point, the row its query found
    deliveries,     \* history: the syncs begun, and per user those that returned success
    beat,           \* per reindex entry of the beat schedule: messages sent, messages a worker discarded
    utc_offset,     \* the host's local time zone: local time minus UTC, in clock ticks
    later,          \* the VectorStoreService a later get_vector_store_service() returned: its dicts
    documents,      \* resumes and cover_letters tables: the rows AutomationService stored
    docResult,      \* the last generate_resume / generate_cover_letter task: its inputs and result
    redis,          \* the counter key of one client in Redis: its value and its time to live
    rpc,            \* per request: where its is_rate_limited call stands
    rcount,         \* per request: the count its redis.get returned
    rret,           \* per request: what its last is_rate_limited call returned
    window          \* history: the requests let through since the window began, and its age

credVars == <<now, users, srvRefresh, nextTok, pc, wkind, wuser, wlocal, wtoken,
              wseen, wresult, werror, tstate, attempts, credInvalid, startedInvalid,
              session>>

appVars == <<jobs, apps, appResult>>

vecVars == <<profiles, vector_store_provider, vectors, metadata, index, vecOp, results>>

docVars == <<llm_response, cover_letter>>

cleanVars == <<today, rows, cleanup>>

fanVars == <<accounts, queue, fanout>>

syncVars == <<profileRows, spc, srun, deliveries>>

schedVars == <<beat>>

hostVars == <<utc_offset>>

instVars == <<later>>

genVars == <<documents, docResult>>

rateVars == <<redis, rpc, rcount, rret, window>>

moreVars == <<hostVars, instVars, genVars, rateVars>>

auxVars == <<docVars, cleanVars, fanVars, syncVars, schedVars, moreVars>>

vars == <<credVars, appVars, vecVars, auxVars>>

\* "task": the handler of sync_profile or of search_jobs, whose token blocks
\* are the same text; "service": a LinkedInService call through
\* _ensure_valid_token.
TaskKinds == {"task"}
Kinds == TaskKinds \cup {"service"}

NoUser == [access |-> NoToken, refresh |-> NoToken, expires_at |-> NoTime]
NoTokenData == [access_token |-> NoToken, refresh_token |-> NoToken, expires_at |-> NoTime]

\* ------------------------------------------------------- LinkedIn endpoint

\* What LinkedIn answers to a refresh request carrying `tok` for member u: a
\* new access token with or without a new refresh token, a rejection of the
\* refresh token, or a transient failure.  The client turns both failures
\* into the same HTTPException.
RefreshOutcomes(u, tok) ==
    {"transient"} \cup
    (IF tok # NoToken /\ tok = srvRefresh[u]
        THEN (IF nextTok + 2 <= MaxTok THEN {"ok_rotate"} ELSE {}) \cup
             (IF nextTok + 1 <= MaxTok THEN {"ok_keep"} ELSE {})
        ELSE {"auth"})

\* ------------------------------------------------------------ task results

\* The handler returns a dict: every exception is caught inside it, so
\* Celery records the task instance as succeeded whatever "status" says.
\* finally: db.close().
TaskReturn(w, k, status, err) ==
    /\ pc' = [pc EXCEPT ![w] = "done"]
    /\ wresult' = [wresult EXCEPT ![w] = status]
    /\ werror' = [werror EXCEPT ![w] = err]
    /\ tstate' = [tstate EXCEPT ![w] = IF k \in TaskKinds THEN "success" ELSE "none"]
    /\ wlocal' = [wlocal EXCEPT ![w] = NoUser]
    /\ wtoken' = [wtoken EXCEPT ![w] = NoTokenData]
    /\ wseen' = [wseen EXCEPT ![w] = NoTime]
    /\ session' = [session EXCEPT ![w] = FALSE]

\* token expired?  `expires_at and expires_at.timestamp() < now`
IsExpired(user, t) == user.expires_at # NoTime /\ user.expires_at < t

\* time.time(): seconds since the epoch.
time_time == now

\* datetime.utcnow().timestamp(): utcnow() is the UTC wall clock without a
\* time zone, and timestamp() reads a datetime without one as local time.
utcnow_timestamp == now - utc_offset

\* `now` as the run computes it: the tasks from datetime.utcnow(),
\* _ensure_valid_token from time.time().
Clock(k) == IF k \in TaskKinds THEN utcnow_timestamp ELSE time_time

\* The time zones a host runs in: west of UTC, UTC, east of UTC.
UtcOffsets == {-2, 0, 2}

HostInit == utc_offset \in UtcOffsets

\* ------------------------------------------------------------- init

CredInit ==
    /\ now = 0
    /\ users \in [Users -> {NoUser, [access |-> 1, refresh |-> 1, expires_at |-> 0]}]
    /\ srvRefresh = [u \in Users |-> users[u].refresh]
    /\ nextTok = 1
    /\ pc = [w \in Workers |-> "idle"]
    /\ wkind = [w \in Workers |-> "task"]
    /\ wuser = [w \in Workers |-> 1]
    /\ wlocal = [w \in Workers |-> NoUser]
    /\ wtoken = [w \in Workers |-> NoTokenData]
    /\ wseen = [w \in Workers |-> NoTime]
    /\ wresult = [w \in Workers |-> "none"]
    /\ werror = [w \in Workers |-> "none"]
    /\ tstate = [w \in Workers |-> "none"]
    /\ attempts = [w \in Workers |-> 0]
    /\ credInvalid = [u \in Users |-> FALSE]
    /\ startedInvalid = [w \in Workers |-> FALSE]
    /\ session = [w \in Workers |-> FALSE]

\* ------------------------------------------------------- environment

\* Time passes; a stored expiry is in the past once now exceeds it.
Tick ==
    /\ UNCHANGED <<appVars, vecVars, auxVars>>
    /\ now < MaxTime
    /\ now' = now + 1
    /\ UNCHANGED <<users, srvRefresh, nextTok, pc, wkind, wuser, wlocal, wtoken, wseen,
                   wresult, werror, tstate, attempts, credInvalid, startedInvalid, session>>

\* LinkedIn stops accepting the member's refresh token (it expired or the
\* member revoked the application).
RevokeRefreshToken(u) ==
    /\ UNCHANGED <<appVars, vecVars, auxVars>>
    /\ srvRefresh[u] # NoToken
    /\ srvRefresh' = [srvRefresh EXCEPT ![u] = NoToken]
    /\ UNCHANGED <<now, users, nextTok, pc, wkind, wuser, wlocal, wtoken, wseen,
                   wresult, werror, tstate, attempts, credInvalid, startedInvalid, session>>

\* The member logs in with LinkedIn again: get_access_token, then update_user
\* with the new access token, refresh token and expiry.
login_linkedin(u) ==
    /\ UNCHANGED <<appVars, vecVars, auxVars>>
    /\ nextTok + 2 <= MaxTok
    /\ nextTok' = nextTok + 2
    /\ srvRefresh' = [srvRefresh EXCEPT ![u] = nextTok + 2]
    /\ users' = [users EXCEPT ![u] = [access |-> nextTok + 1, refresh |-> nextTok + 2,
                                      expires_at |-> now + ExpiresIn]]
    /\ credInvalid' = [credInvalid EXCEPT ![u] = FALSE]
    /\ UNCHANGED <<now, pc, wkind, wuser, wlocal, wtoken, wseen,
                   wresult, werror, tstate, attempts, startedInvalid, session>>

\* ------------------------------------------------- token acquisition

\* The run goes on to its next step; a task does so inside the try that
\* follows db = SessionLocal().
Continue(w, k, to) ==
    /\ pc' = [pc EXCEPT ![w] = to]
    /\ wresult' = [wresult EXCEPT ![w] = "none"]
    /\ werror' = [werror EXCEPT ![w] = "none"]
    /\ tstate' = [tstate EXCEPT ![w] = IF k \in TaskKinds THEN "running" ELSE "none"]
    /\ session' = [session EXCEPT ![w] = k \in TaskKinds]

\* A worker runs the handler of a task instance (sync_profile, search_jobs)
\* or a LinkedInService call for user u: it loads the user and checks the
\* token, up to the point where it calls LinkedIn.
BeginRun(w, u, k) ==
    /\ UNCHANGED <<appVars, vecVars, auxVars>>
    /\ pc[w] \in {"idle", "done"}
    /\ wkind' = [wkind EXCEPT ![w] = k]
    /\ wuser' = [wuser EXCEPT ![w] = u]
    /\ attempts' = [attempts EXCEPT ![w] = IF k \in TaskKinds THEN 1 ELSE 0]
    /\ startedInvalid' = [startedInvalid EXCEPT ![w] = credInvalid[u]]
    /\ IF users[u].access = NoToken
          THEN TaskReturn(w, k, "error", "not_connected")
          ELSE IF IsExpired(users[u], Clock(k)) /\ users[u].refresh = NoToken
                  THEN TaskReturn(w, k, "error", "no_refresh")
                  ELSE /\ Continue(w, k, IF IsExpired(users[u], Clock(k)) THEN "refresh" ELSE "call")
                       /\ wlocal' = [wlocal EXCEPT ![w] = users[u]]
                       /\ wtoken' = [wtoken EXCEPT ![w] = NoTokenData]
                       /\ wseen' = [wseen EXCEPT ![w] =
                                       IF IsExpired(users[u], Clock(k)) THEN users[u].expires_at
                                                                        ELSE NoTime]
    /\ UNCHANGED <<now, users, srvRefresh, nextTok, credInvalid>>

\* linkedin_client.refresh_access_token(user.linkedin_refresh_token) and the
\* except clause around it: a failure ends the run with an error result.
refresh_access_token(w) ==
    /\ UNCHANGED <<appVars, vecVars, auxVars>>
    /\ pc[w] = "refresh"
    /\ \E o \in RefreshOutcomes(wuser[w], wlocal[w].refresh) :
        /\ nextTok' = CASE o = "ok_rotate" -> nextTok + 2
                        [] o = "ok_keep" -> nextTok + 1
                        [] OTHER -> nextTok
        /\ srvRefresh' = IF o = "ok_rotate"
                            THEN [srvRefresh EXCEPT ![wuser[w]] = nextTok + 2]
                            ELSE srvRefresh
        /\ credInvalid' = IF o = "auth"
                             THEN [credInvalid EXCEPT ![wuser[w]] = TRUE]
                             ELSE credInvalid
        /\ IF o \in {"ok_rotate", "ok_keep"}
              THEN /\ wtoken' = [wtoken EXCEPT ![w] =
                            [access_token |-> nextTok + 1,
                             refresh_token |-> IF o = "ok_rotate" THEN nextTok + 2 ELSE NoToken,
                             expires_at |-> now + ExpiresIn]]
                   /\ pc' = [pc EXCEPT ![w] = "store"]
                   /\ UNCHANGED <<wresult, werror, tstate, session>>
                   /\ UNCHANGED <<wlocal, wseen>>
              ELSE TaskReturn(w, wkind[w], "error", o)
    /\ UNCHANGED <<now, users, wkind, wuser, attempts, startedInvalid>>

\* An attribute set to the value the object was loaded with is no change and
\* is not written by the UPDATE.
Flush(loaded, value, stored) == IF value = loaded THEN stored ELSE value

\* The refresh token a run stores: the tasks keep the old one when the answer
\* has none, _ensure_valid_token stores token_data.get("refresh_token").
NewRefreshToken(k, td, user) ==
    IF k \in TaskKinds /\ td.refresh_token = NoToken THEN user.refresh ELSE td.refresh_token

\* What the commit of the new token does.  The tasks store the expiry as
\* datetime.fromtimestamp(expires_at); _ensure_valid_token assigns the integer
\* expires_at to the DateTime column, which the database driver converts or
\* rejects.
CommitOutcomes(k) == IF k \in TaskKinds THEN {"ok"} ELSE {"ok", "raises"}

\* update_user(db, user, {...}) in the tasks, or the three assignments and
\* commit of _ensure_valid_token; the object then shows the stored row.  A
\* commit that raises is caught: _ensure_valid_token returns None, its caller
\* an error result, and the row is as it was.
StoreToken(w) ==
    /\ UNCHANGED <<appVars, vecVars, auxVars>>
    /\ pc[w] = "store"
    /\ \E commit \in CommitOutcomes(wkind[w]) :
        IF commit = "ok"
            THEN /\ LET u == wuser[w]
                        old == wlocal[w]
                        td == wtoken[w]
                        row == [access |-> Flush(old.access, td.access_token, users[u].access),
                                refresh |-> Flush(old.refresh, NewRefreshToken(wkind[w], td, old),
                                                  users[u].refresh),
                                expires_at |-> Flush(old.expires_at, td.expires_at,
                                                     users[u].expires_at)]
                    IN /\ users' = [users EXCEPT ![u] = row]
                       /\ wlocal' = [wlocal EXCEPT ![w] = row]
                 /\ pc' = [pc EXCEPT ![w] = "call"]
                 /\ wtoken' = [wtoken EXCEPT ![w] = NoTokenData]
                 /\ UNCHANGED <<wseen, wresult, werror, tstate, session>>
            ELSE /\ TaskReturn(w, wkind[w], "error", "commit")
                 /\ UNCHANGED users
    /\ UNCHANGED <<now, srvRefresh, nextTok, wkind, wuser, attempts, credInvalid, startedInvalid>>

\* get_profile / search_jobs with user.linkedin_access_token, and what the
\* handler returns after it.
ExternalCall(w) ==
    /\ UNCHANGED <<appVars, vecVars, auxVars>>
    /\ pc[w] = "call"
    /\ \E o \in {"ok", "transient"} :
        IF o = "ok" THEN TaskReturn(w, wkind[w], "success", "none")
                    ELSE TaskReturn(w, wkind[w], "error", "transient")
    /\ UNCHANGED <<now, users, srvRefresh, nextTok, wkind, wuser,
                   attempts, credInvalid, startedInvalid>>

\* ------------------------------------------------------------ applications

\* "draft", "submitted", "rejected": values of ApplicationStatus; "prepared",
\* "failed", "applied": the strings the services assign.
Statuses == {"draft", "prepared", "submitted", "failed", "applied", "rejected"}

NoJob == 0
NoExternalId == 0
NoApp == [status |-> "none", external_application_id |-> NoExternalId]
NoResult == [op |-> "none", app |-> 0, status |-> "none", was |-> "none"]

AppInit ==
    /\ jobs = [j \in JobIds |-> NoJob]
    /\ apps = [a \in AppIds |-> NoApp]
    /\ appResult = NoResult

\* external_id = f"app_{int(time.time())}": never None.
ExternalId(t) == t + 1

\* The mock submission of submit_application: success = True.
success == TRUE

\* The search_jobs task stores a job it found (create_job) or updates the
\* stored one (update_job) with the text LinkedIn returned.
StoreJob(j, text) ==
    /\ text # NoJob
    /\ jobs[j] # text
    /\ jobs' = [jobs EXCEPT ![j] = text]
    /\ vecOp' = [op |-> "store_job", id |-> j, ok |-> TRUE, rep |-> FALSE]
    /\ results' = <<>>
    /\ UNCHANGED <<auxVars, credVars, apps, appResult, profiles, vector_store_provider, vectors,
                   metadata, index>>

\* AutomationService.create_application: the user, the job and the documents
\* named must exist; the application is created as "prepared".  Any exception
\* (db: the session fails) gives an error result and no row.
create_application(a, u, j, docs, db) ==
    /\ apps[a] = NoApp
    /\ \A b \in AppIds : b < a => apps[b] # NoApp
    /\ IF u \in Users /\ j \in JobIds /\ jobs[j] # NoJob /\ docs = "found" /\ db = "ok"
          THEN /\ apps' = [apps EXCEPT ![a] = [status |-> "prepared",
                                               external_application_id |-> NoExternalId]]
               /\ appResult' = [op |-> "create_application", app |-> a,
                                status |-> "success", was |-> "none"]
          ELSE /\ UNCHANGED apps
               /\ appResult' = [op |-> "create_application", app |-> 0,
                                status |-> "error", was |-> "none"]
    /\ UNCHANGED <<auxVars, credVars, vecVars, jobs>>

\* AutomationService.submit_application.  db = "error": the commit raises, the
\* except clause returns an error and the row stays as it was.
submit_application(a, db) ==
    /\ LET application == apps[a] IN
       IF application = NoApp
          THEN /\ UNCHANGED apps
               /\ appResult' = [op |-> "submit_application", app |-> a,
                                status |-> "error", was |-> "none"]
       ELSE IF application.status \notin {"prepared", "failed"}
          THEN /\ UNCHANGED apps
               /\ appResult' = [op |-> "submit_application", app |-> a,
                                status |-> "error", was |-> application.status]
       ELSE IF db = "error"
          THEN /\ UNCHANGED apps
               /\ appResult' = [op |-> "submit_application", app |-> a,
                                status |-> "error", was |-> application.status]
       ELSE IF success
          THEN /\ apps' = [apps EXCEPT ![a] = [status |-> "submitted",
                                               external_application_id |-> ExternalId(now)]]
               /\ appResult' = [op |-> "submit_application", app |-> a,
                                status |-> "success", was |-> application.status]
          ELSE /\ apps' = [apps EXCEPT ![a] = [application EXCEPT !.status = "failed"]]
               /\ appResult' = [op |-> "submit_application", app |-> a,
                                status |-> "error", was |-> application.status]
    /\ UNCHANGED <<auxVars, credVars, vecVars, jobs>>

\* update_application(db, application, {"status": s}): every field of the
\* update that the object has is assigned, whatever the current status.
update_application(a, s) ==
    /\ apps[a] # NoApp
    /\ apps' = [apps EXCEPT ![a] = [@ EXCEPT !.status = s]]
    /\ appResult' = [op |-> "update_application", app |-> a, status |-> "success",
                     was |-> apps[a].status]
    /\ UNCHANGED <<auxVars, credVars, vecVars, jobs>>

\* track_application_status: it returns None for an unknown id; for a known
\* one it reads application.status_history, which the Application model does
\* not define, and raises before update_application is reached.
track_application_status(a, new_status) ==
    /\ new_status \in Statuses
    /\ appResult' = [op |-> "track_application_status", app |-> a,
                     status |-> IF apps[a] = NoApp THEN "none" ELSE "raised",
                     was |-> apps[a].status]
    /\ UNCHANGED <<auxVars, credVars, vecVars, jobs, apps>>

\* create_application of the application service: Application(**data) is given
\* applied_at, which is no attribute of the model, and raises.
service_create_application(s) ==
    /\ s \in Statuses
    /\ appResult' = [op |-> "service_create_application", app |-> 0,
                     status |-> "raised", was |-> "none"]
    /\ UNCHANGED <<auxVars, credVars, vecVars, jobs, apps>>

\* LinkedInService.apply_to_job with a token that needs no refresh: no token,
\* no job, or the Application(...) call with applied_at raising; all three
\* return an error and store nothing.
apply_to_job(u, j) ==
    /\ ~(users[u].access # NoToken /\ IsExpired(users[u], now))
    /\ appResult' = [op |-> "apply_to_job", app |-> 0, status |-> "error", was |-> "none"]
    /\ UNCHANGED <<auxVars, credVars, vecVars, jobs, apps>>

NextApp ==
    \/ \E j \in JobIds : StoreJob(j, 1)
    \/ \E a \in AppIds, u \in Users \cup {0}, j \in JobIds,
          docs \in {"found", "missing"}, db \in {"ok", "error"} :
            create_application(a, u, j, docs, db)
    \/ \E a \in AppIds, db \in {"ok", "error"} : submit_application(a, db)
    \/ \E a \in AppIds, s \in Statuses : update_application(a, s)
    \/ \E a \in AppIds, s \in Statuses : track_application_status(a, s)
    \/ \E s \in Statuses : service_create_application(s)
    \/ \E u \in Users, j \in JobIds : apply_to_job(u, j)

\* ------------------------------------------------------------ vector store

\* The embedding provider: the vector of each text.  Text 2 has the vector of
\* zeros; two rows of the same text have the same vector; every norm is an
\* integer.
TextVectors == << <<1, 0>>, <<0, 0>>, <<3, 4>> >>
Texts == 1..Len(TextVectors)
get_embedding(text) == TextVectors[text]

AllIds == JobIds \cup ProfileIds
Namespaces == {"jobs", "profiles"}
NoVec == <<>>
NoMeta == [type |-> "none", text |-> 0]
NoOp == [op |-> "none", id |-> 0, ok |-> FALSE, rep |-> FALSE]

\* Scores are in hundredths: 100 is the similarity 1.0.
Scale == 100
\* min_score: float = 0.7
DefaultMinScore == 70
\* 0.0 / 0.0 of numpy
NaN == -1000

Dot(a, b) == a[1] * b[1] + a[2] * b[2]
Norm(a) == CHOOSE n \in 0..5 : n * n = Dot(a, a)

\* dot_product / (norm_vec1 * norm_vec2)
_cosine_similarity(vec1, vec2) ==
    IF Norm(vec1) * Norm(vec2) = 0
        THEN NaN
        ELSE (Scale * Dot(vec1, vec2)) \div (Norm(vec1) * Norm(vec2))

\* similarity >= min_score: false for nan
ScoreGE(score, min_score) == score # NaN /\ score >= min_score

VecInit ==
    /\ profiles = [q \in ProfileIds |-> NoJob]
    /\ vector_store_provider \in {"in_memory", "pinecone"}
    /\ vectors = <<>>
    /\ metadata = [i \in AllIds |-> NoMeta]
    /\ index = [ns \in Namespaces |-> [i \in AllIds |-> [vec |-> NoVec, meta |-> NoMeta]]]
    /\ vecOp = NoOp
    /\ results = <<>>

\* The sync stores or updates the user's profile (create_profile /
\* update_profile) with the text LinkedIn returned.
StoreProfile(q, text) ==
    /\ profiles[q] # text
    /\ profiles' = [profiles EXCEPT ![q] = text]
    /\ vecOp' = [op |-> "store_profile", id |-> q, ok |-> TRUE, rep |-> FALSE]
    /\ results' = <<>>
    /\ UNCHANGED <<auxVars, credVars, appVars, vector_store_provider, vectors, metadata, index>>

\* The position of key k in the dict d, 0 when absent.
KeyIndex(d, k) ==
    IF \E i \in 1..Len(d) : d[i].id = k
        THEN CHOOSE i \in 1..Len(d) : d[i].id = k
        ELSE 0

\* A store that appends on every write, whether or not the key is there.
DictAppend(d, k, v) ==
    Append(d, [id |-> k, vec |-> v])

\* self.vectors[k] = v: a key already there keeps its place.
DictSet(d, k, v) ==
    IF KeyIndex(d, k) = 0
        THEN Append(d, [id |-> k, vec |-> v])
        ELSE [d EXCEPT ![KeyIndex(d, k)] = [id |-> k, vec |-> v]]

\* The store after an upsert of (k, embedding, meta) in namespace ns.
Upsert(ns, k, embedding, meta) ==
    IF vector_store_provider = "pinecone"
        THEN /\ index' = [index EXCEPT ![ns][k] = [vec |-> embedding, meta |-> meta]]
             /\ UNCHANGED <<vectors, metadata>>
        ELSE /\ vectors' = DictSet(vectors, k, embedding)
             /\ metadata' = [metadata EXCEPT ![k] = meta]
             /\ UNCHANGED index

\* This call repeats the call before it: the same operation on the same id,
\* both successful, nothing stored in between.
Repeats(op, k) == vecOp.op = op /\ vecOp.id = k /\ vecOp.ok

\* index_job(job): embed the job's text and upsert it under str(job.id); False
\* and no change when the embedding or the upsert raises.
index_job(j, emb) ==
    /\ jobs[j] # NoJob
    /\ IF emb = "ok"
          THEN /\ Upsert("jobs", j, get_embedding(jobs[j]), [type |-> "job", text |-> jobs[j]])
               /\ vecOp' = [op |-> "index_job", id |-> j, ok |-> TRUE,
                            rep |-> Repeats("index_job", j)]
          ELSE /\ UNCHANGED <<vectors, metadata, index>>
               /\ vecOp' = [op |-> "index_job", id |-> j, ok |-> FALSE, rep |-> FALSE]
    /\ results' = <<>>
    /\ UNCHANGED <<auxVars, credVars, appVars, profiles, vector_store_provider>>

\* index_profile(profile): the same under str(profile.id), namespace "profiles".
index_profile(q, emb) ==
    /\ profiles[q] # NoJob
    /\ IF emb = "ok"
          THEN /\ Upsert("profiles", q, get_embedding(profiles[q]),
                         [type |-> "profile", text |-> profiles[q]])
               /\ vecOp' = [op |-> "index_profile", id |-> q, ok |-> TRUE,
                            rep |-> Repeats("index_profile", q)]
          ELSE /\ UNCHANGED <<vectors, metadata, index>>
               /\ vecOp' = [op |-> "index_profile", id |-> q, ok |-> FALSE, rep |-> FALSE]
    /\ results' = <<>>
    /\ UNCHANGED <<auxVars, credVars, appVars, profiles, vector_store_provider>>

\* The database has the row the match names.
RowExists(type, i) ==
    IF type = "job"
        THEN i \in JobIds /\ jobs[i] # NoJob
        ELSE i \in ProfileIds /\ profiles[i] # NoJob

Take(s, n) == SubSeq(s, 1, IF n < Len(s) THEN n ELSE Len(s))

\* list.sort(key=score, reverse=True) is stable: an entry goes after the
\* entries already there whose score is at least its own.
InsertDesc(s, e) ==
    LET k == Cardinality({i \in 1..Len(s) : s[i].score >= e.score})
    IN  SubSeq(s, 1, k) \o <<e>> \o SubSeq(s, k + 1, Len(s))

RECURSIVE SortDesc(_)
SortDesc(s) ==
    IF s = <<>> THEN <<>>
    ELSE InsertDesc(SortDesc(SubSeq(s, 1, Len(s) - 1)), s[Len(s)])

\* The in-memory branch of a query: walk self.vectors in insertion order,
\* keep the entries of the type whose score passes and whose row exists,
\* sort by score descending, cut at limit.
InMemoryQuery(query_embedding, type, limit, min_score) ==
    LET keep(e) == /\ metadata[e.id].type = type
                   /\ ScoreGE(_cosine_similarity(query_embedding, e.vec), min_score)
                   /\ RowExists(type, e.id)
        kept == SelectSeq(vectors, keep)
        scored == [i \in 1..Len(kept) |->
                     [id |-> kept[i].id,
                      score |-> _cosine_similarity(query_embedding, kept[i].vec)]]
    IN  Take(SortDesc(scored), limit)

\* What the index may report for a pair with a vector of zeros: no match, or
\* a match of score 0.
ZeroScores == {NaN, 0}

\* The sequences without repetition over the set S.
Orderings(S) ==
    LET n == Cardinality(S)
    IN  {f \in [1..n -> S] : \A i, k \in 1..n : i # k => f[i] # f[k]}

\* What the index answers when a pair with a vector of zeros scores z: its
\* top_k matches of the namespace by descending score, equal scores in an
\* order of its own.
IndexQuery(query_embedding, ns, top_k, z) ==
    LET raw == [i \in AllIds |-> IF index[ns][i].vec = NoVec THEN NaN
                                 ELSE _cosine_similarity(query_embedding, index[ns][i].vec)]
        score == [i \in AllIds |-> IF raw[i] = NaN THEN z ELSE raw[i]]
        found == {i \in AllIds : index[ns][i].vec # NoVec /\ score[i] # NaN}
        ranked == {g \in Orderings(found) :
                     \A i, k \in 1..Len(g) : i < k => score[g[i]] >= score[g[k]]}
    IN  {Take([i \in 1..Len(f) |-> [id |-> f[i], score |-> score[f[i]]]], top_k) : f \in ranked}

\* The Pinecone branch of a query: the caller drops the matches under
\* min_score and those without a row.
PineconeQuery(query_embedding, type, limit, min_score) ==
    LET ns == IF type = "job" THEN "jobs" ELSE "profiles"
        keep(m) == m.score >= min_score /\ RowExists(type, m.id)
    IN  UNION {{SelectSeq(matches, keep) : matches \in IndexQuery(query_embedding, ns, limit, z)} :
                 z \in ZeroScores}

\* The lists a query may return.
QueryResults(query_embedding, type, limit, min_score) ==
    IF vector_store_provider = "pinecone"
        THEN PineconeQuery(query_embedding, type, limit, min_score)
        ELSE {InMemoryQuery(query_embedding, type, limit, min_score)}

MinScores == {0, DefaultMinScore}

\* search_jobs(query, limit, min_score)
search_jobs(text, limit, min_score) ==
    /\ results' \in QueryResults(get_embedding(text), "job", limit, min_score)
    /\ vecOp' = [op |-> "search_jobs", id |-> 0, ok |-> TRUE, rep |-> FALSE]
    /\ UNCHANGED <<auxVars, credVars, appVars, profiles, vector_store_provider, vectors, metadata, index>>

\* find_similar_jobs(profile_id, limit, min_score): [] without the profile.
find_similar_jobs(q, limit, min_score) ==
    /\ IF profiles[q] = NoJob
          THEN results' = <<>>
          ELSE results' \in QueryResults(get_embedding(profiles[q]), "job", limit, min_score)
    /\ vecOp' = [op |-> "find_similar_jobs", id |-> q, ok |-> TRUE, rep |-> FALSE]
    /\ UNCHANGED <<auxVars, credVars, appVars, profiles, vector_store_provider, vectors, metadata, index>>

\* find_similar_profiles(job_id, limit, min_score): [] without the job.
find_similar_profiles(j, limit, min_score) ==
    /\ IF jobs[j] = NoJob
          THEN results' = <<>>
          ELSE results' \in QueryResults(get_embedding(jobs[j]), "profile", limit, min_score)
    /\ vecOp' = [op |-> "find_similar_profiles", id |-> j, ok |-> TRUE, rep |-> FALSE]
    /\ UNCHANGED <<auxVars, credVars, appVars, profiles, vector_store_provider, vectors, metadata, index>>

NextVec ==
    \/ \E j \in JobIds, t \in Texts : StoreJob(j, t)
    \/ \E q \in ProfileIds, t \in Texts : StoreProfile(q, t)
    \/ \E j \in JobIds, emb \in {"ok", "fail"} : index_job(j, emb)
    \/ \E q \in ProfileIds, emb \in {"ok", "fail"} : index_profile(q, emb)
    \/ \E t \in Texts, limit \in 1..MaxLimit, m \in MinScores : search_jobs(t, limit, m)
    \/ \E q \in ProfileIds, limit \in 1..MaxLimit, m \in MinScores : find_similar_jobs(q, limit, m)
    \/ \E j \in JobIds, limit \in 1..MaxLimit, m \in MinScores : find_similar_profiles(j, limit, m)

\* ------------------------------------------------------------ job matching

\* What the LLM answers to a match request: JSON with a numeric match_score
\* (the rating asked for is 0-100, the answer is whatever the model wrote),
\* JSON whose match_score is text, text that is not JSON, or no answer (the
\* call raises).
MatchScores == {0, 50, 150}
LLMOutputs ==
    [kind : {"json"}, match_score : MatchScores]
        \cup [kind : {"json_text", "malformed", "error"}, match_score : {0}]

\* match_score of the fallback for an answer that is not JSON, and the
\* default of match_result.get("match_score", 50)
FallbackScore == 50

\* LLMService.match_job: the parsed answer; the fallback dict when the answer
\* is not JSON; the dict {"status": "error"} when the call raises.
match_job(out) ==
    CASE out.kind = "json" ->
            [status |-> "ok", has_score |-> TRUE, numeric |-> TRUE,
             match_score |-> out.match_score, raw_response |-> FALSE]
      [] out.kind = "json_text" ->
            [status |-> "ok", has_score |-> TRUE, numeric |-> FALSE,
             match_score |-> 0, raw_response |-> FALSE]
      [] out.kind = "malformed" ->
            [status |-> "ok", has_score |-> TRUE, numeric |-> TRUE,
             match_score |-> FallbackScore, raw_response |-> TRUE]
      [] OTHER ->
            [status |-> "error", has_score |-> FALSE, numeric |-> TRUE,
             match_score |-> 0, raw_response |-> FALSE]

\* match_result.get("match_score", 50) / 100.0, in hundredths
llm_score(match_result) ==
    ((IF match_result.has_score THEN match_result.match_score ELSE FallbackScore) * Scale) \div 100

\* A combination that ignores the LLM's score.
vector_only_score(vector_score, llm) == vector_score

\* (vector_score + llm_score) / 2.0; the scores of the model are even numbers
\* of hundredths, so the half is exact.
combined_score(vector_score, llm) == (vector_score + llm) \div 2

\* The id of the profile of user u, 0 without one.
ProfileOfUser(u) == IF u \in ProfileIds /\ profiles[u] # NoJob THEN u ELSE 0

\* The entry of matching_jobs for one similar job; llm is the answer the LLM
\* gave for it (kept in the entry for the record).
MatchEntry(job_match, out) ==
    [id |-> job_match.id,
     score |-> combined_score(job_match.score, llm_score(match_job(out))),
     vector_score |-> job_match.score,
     llm_score |-> llm_score(match_job(out)),
     llm |-> out]

\* AutomationService.find_matching_jobs(user_id, limit): the similar jobs
\* of the user's profile, each matched by the LLM, sorted by combined score.
\* Any exception (a match_score that is no number) ends the call with an
\* error result and no list.
find_matching_jobs(u, limit) ==
    /\ IF ProfileOfUser(u) = 0
          THEN /\ results' = <<>>
               /\ vecOp' = [op |-> "find_matching_jobs", id |-> u, ok |-> FALSE, rep |-> FALSE]
          ELSE \E similar_jobs \in QueryResults(get_embedding(profiles[ProfileOfUser(u)]),
                                                "job", limit, DefaultMinScore) :
               \E llm \in [{similar_jobs[i].id : i \in 1..Len(similar_jobs)} -> LLMOutputs] :
                  IF \E i \in 1..Len(similar_jobs) : ~match_job(llm[similar_jobs[i].id]).numeric
                      THEN /\ results' = <<>>
                           /\ vecOp' = [op |-> "find_matching_jobs", id |-> u,
                                        ok |-> FALSE, rep |-> FALSE]
                      ELSE /\ results' = SortDesc([i \in 1..Len(similar_jobs) |->
                                            MatchEntry(similar_jobs[i], llm[similar_jobs[i].id])])
                           /\ vecOp' = [op |-> "find_matching_jobs", id |-> u,
                                        ok |-> TRUE, rep |-> FALSE]
    /\ UNCHANGED <<auxVars, credVars, appVars, profiles, vector_store_provider, vectors, metadata, index>>

NextMatch ==
    \/ \E j \in JobIds, t \in Texts : StoreJob(j, t)
    \/ \E q \in ProfileIds, t \in Texts : StoreProfile(q, t)
    \/ \E j \in JobIds, emb \in {"ok", "fail"} : index_job(j, emb)
    \/ \E q \in ProfileIds, emb \in {"ok", "fail"} : index_profile(q, emb)
    \/ \E u \in Users, limit \in 1..MaxLimit : find_matching_jobs(u, limit)

\* ------------------------------------------------------------ documents

\* The characters of an LLM answer, and the answers up to MaxText characters.
Chars == {"{", "}", "1", "a"}
ResponseTexts == UNION {[1..n -> Chars] : n \in 0..MaxText}

NoText == <<"-">>

\* json.loads accepts the text: here an empty object or a number.
IsObject(text) == text = <<"{", "}">>
IsNumber(text) == Len(text) > 0 /\ \A i \in 1..Len(text) : text[i] = "1"
IsJSON(text) == IsObject(text) \/ IsNumber(text)

\* json.loads(text) for a text it accepts: the value as it is returned, with
\* the keys it has when it is a dict.
json_loads(text) ==
    [raised |-> FALSE, type |-> IF IsObject(text) THEN "dict" ELSE "number",
     keys |-> {}, full_text |-> NoText, number |-> IF IsNumber(text) THEN Len(text) ELSE 0]

CoverLetterKeys ==
    {"subject_line", "salutation", "introduction", "body", "closing", "signature", "full_text"}

\* A fallback that keeps none of the answer.
PlaceholderLetter(response) ==
    [raised |-> FALSE, type |-> "dict", keys |-> CoverLetterKeys,
     full_text |-> <<>>, number |-> 0]

\* The dict of the except json.JSONDecodeError branch.
FallbackLetter(response) ==
    [raised |-> FALSE, type |-> "dict", keys |-> CoverLetterKeys,
     full_text |-> response, number |-> 0]

\* {"status": "error", "message": ...}
ErrorDict ==
    [raised |-> FALSE, type |-> "dict", keys |-> {"status", "message"},
     full_text |-> NoText, number |-> 0]

\* The exception leaves the function.
Raised ==
    [raised |-> TRUE, type |-> "none", keys |-> {}, full_text |-> NoText, number |-> 0]

\* LLMClient.generate_cover_letter: nothing catches what generate_text raises.
LLMClient_generate_cover_letter(ok, response) ==
    IF ~ok THEN Raised
    ELSE IF IsJSON(response) THEN json_loads(response)
    ELSE FallbackLetter(response)

\* LLMService.generate_cover_letter: the outer except turns what
\* generate_text raises into an error dict.
LLMService_generate_cover_letter(ok, response) ==
    IF ~ok THEN ErrorDict
    ELSE IF IsJSON(response) THEN json_loads(response)
    ELSE FallbackLetter(response)

DocInit ==
    /\ llm_response = [via |-> "none", ok |-> FALSE, text |-> NoText]
    /\ cover_letter = Raised

\* One cover-letter request through the service or through the client; the
\* LLM answers the text response, or the call fails (ok = FALSE).
generate_cover_letter(via, ok, response) ==
    /\ llm_response' = [via |-> via, ok |-> ok, text |-> IF ok THEN response ELSE NoText]
    /\ cover_letter' = IF via = "service"
                          THEN LLMService_generate_cover_letter(ok, response)
                          ELSE LLMClient_generate_cover_letter(ok, response)
    /\ UNCHANGED <<moreVars, schedVars, credVars, appVars, vecVars, cleanVars, fanVars, syncVars>>

NextDoc ==
    \E via \in {"service", "client"}, ok \in BOOLEAN, response \in ResponseTexts :
        generate_cover_letter(via, ok, response)

\* ------------------------------------------------------------ cleanup

RowIds == 1..MaxRows
Days == 0..MaxDay
Tables == {"jobs", "applications", "resumes", "cover_letters"}
NoRow == [table |-> "none", created_at |-> 0, updated_at |-> 0, job_id |-> 0]

\* The timestamp attributes of the models.
Columns == {"created_at", "updated_at"}

CleanInit ==
    /\ today = 0
    /\ rows = [r \in RowIds |-> NoRow]
    /\ cleanup = [runs |-> 0, days |-> 0, status |-> "none", deleted |-> 0]

\* A day passes.
NextDay ==
    /\ today < MaxDay
    /\ today' = today + 1
    /\ UNCHANGED <<moreVars, schedVars, credVars, appVars, vecVars, docVars, fanVars, syncVars, rows, cleanup>>

\* A row is inserted: created_at and updated_at default to utcnow().  An
\* application names an existing job.
InsertRow(r, table, job_id) ==
    /\ rows[r] = NoRow
    /\ IF table = "applications"
          THEN job_id \in RowIds /\ rows[job_id].table = "jobs"
          ELSE job_id = 0
    /\ rows' = [rows EXCEPT ![r] = [table |-> table, created_at |-> today,
                                    updated_at |-> today, job_id |-> job_id]]
    /\ UNCHANGED <<moreVars, schedVars, credVars, appVars, vecVars, docVars, fanVars, syncVars, today, cleanup>>

\* A row is updated: onupdate=datetime.utcnow.
UpdateRow(r) ==
    /\ rows[r] # NoRow
    /\ rows[r].updated_at # today
    /\ rows' = [rows EXCEPT ![r].updated_at = today]
    /\ UNCHANGED <<moreVars, schedVars, credVars, appVars, vecVars, docVars, fanVars, syncVars, today, cleanup>>

\* The rows of a table the query of cleanup_old_data selects.
OldRows(table, cutoff_date) ==
    {r \in RowIds :
        /\ rows[r].table = table
        /\ IF table \in {"jobs", "applications"}
              THEN rows[r].created_at < cutoff_date \/ rows[r].updated_at < cutoff_date
              ELSE rows[r].created_at < cutoff_date}

\* db.delete(job) takes the job's applications with it (cascade).
Cascade(deleted) ==
    deleted \cup {r \in RowIds : rows[r].table = "applications" /\ rows[r].job_id \in deleted}

\* cleanup_old_data(days): the first query names Job.last_updated; the models
\* have no such attribute, the expression raises, the except returns an error
\* result and nothing is deleted.  With the attribute, the selected rows (and
\* the applications of the selected jobs) are deleted.
cleanup_old_data(days) ==
    /\ cleanup.runs < MaxCleanups
    /\ LET cutoff_date == today - days
           deleted == Cascade(UNION {OldRows(t, cutoff_date) : t \in Tables})
       IN  IF "last_updated" \notin Columns
              THEN /\ cleanup' = [runs |-> cleanup.runs + 1, days |-> days,
                                  status |-> "error", deleted |-> 0]
                   /\ UNCHANGED rows
              ELSE /\ cleanup' = [runs |-> cleanup.runs + 1, days |-> days,
                                  status |-> "success", deleted |-> Cardinality(deleted)]
                   /\ rows' = [r \in RowIds |-> IF r \in deleted THEN NoRow ELSE rows[r]]
    /\ UNCHANGED <<moreVars, schedVars, credVars, appVars, vecVars, docVars, fanVars, syncVars, today>>

NextClean ==
    \/ NextDay
    \/ \E r \in RowIds, t \in Tables, j \in 0..MaxRows : InsertRow(r, t, j)
    \/ \E r \in RowIds : UpdateRow(r)
    \/ \E days \in 1..(MaxDay - 1) : cleanup_old_data(days)

\* ------------------------------------------------------------ admin fan-out

Accounts == 1..NumAccounts
AccountStates == {"none", "user", "linked"}

\* The fan-out tasks and the child task each starts per user.
FanKinds == {"sync_all_profiles", "search_jobs_for_all_users", "find_matching_jobs_for_all_users"}
ChildOf(kind) ==
    CASE kind = "sync_all_profiles" -> "sync_profile"
      [] kind = "search_jobs_for_all_users" -> "search_jobs"
      [] OTHER -> "find_matching_jobs"

NoFanout ==
    [runs |-> 0, kind |-> "none", status |-> "none", has_manifest |-> FALSE,
     task_count |-> 0, tasks |-> {}, users |-> {}, enqueued |-> {}]

FanInit ==
    /\ accounts = [a \in Accounts |-> "none"]
    /\ queue = {}
    /\ fanout = NoFanout

\* A user registers, links LinkedIn, or is removed.
SetAccount(a, st) ==
    /\ accounts[a] # st
    /\ accounts' = [accounts EXCEPT ![a] = st]
    /\ UNCHANGED <<moreVars, schedVars, credVars, appVars, vecVars, docVars, cleanVars, syncVars, queue, fanout>>

\* The users the task's query returns: those with linkedin_access_token, or
\* (find_matching_jobs_for_all_users) all of them.
FanUsers(kind) ==
    IF kind = "find_matching_jobs_for_all_users"
        THEN {a \in Accounts : accounts[a] # "none"}
        ELSE {a \in Accounts : accounts[a] = "linked"}

\* The child tasks after .delay() for the first n users of the list, task ids
\* counted on from the queue's.
Children(kind, order, n) ==
    {[name |-> ChildOf(kind), user_id |-> order[i], task_id |-> Cardinality(queue) + i] :
        i \in 1..n}

\* A fan-out task: one .delay() per user of the query, in the order the query
\* gave them, then the manifest.  When a .delay() raises (broker_ok = FALSE:
\* after done of them), the except returns an error result without manifest;
\* what was enqueued stays enqueued.
fan_out(kind, order, broker_ok, done) ==
    /\ fanout.runs < MaxFanouts
    /\ order \in Orderings(FanUsers(kind))
    /\ done \in 0..Len(order)
    /\ broker_ok => done = Len(order)
    /\ ~broker_ok => done < Len(order)
    /\ queue' = queue \cup Children(kind, order, done)
    /\ fanout' =
          IF broker_ok
              THEN [runs |-> fanout.runs + 1, kind |-> kind, status |-> "success",
                    has_manifest |-> TRUE, task_count |-> Len(order),
                    tasks |-> {[user_id |-> c.user_id, task_id |-> c.task_id] :
                                 c \in Children(kind, order, done)},
                    users |-> FanUsers(kind),
                    enqueued |-> Children(kind, order, done)]
              ELSE [runs |-> fanout.runs + 1, kind |-> kind, status |-> "error",
                    has_manifest |-> FALSE, task_count |-> 0, tasks |-> {},
                    users |-> FanUsers(kind),
                    enqueued |-> Children(kind, order, done)]
    /\ UNCHANGED <<moreVars, schedVars, credVars, appVars, vecVars, docVars, cleanVars, syncVars, accounts>>

NextFan ==
    \/ \E a \in Accounts, st \in AccountStates : SetAccount(a, st)
    \/ \E kind \in FanKinds, n \in 0..NumAccounts, broker_ok \in BOOLEAN, done \in 0..NumAccounts :
          \E order \in [1..n -> Accounts] : fan_out(kind, order, broker_ok, done)

\* ------------------------------------------------------------ profile sync

\* The profile LinkedIn returns for a member: it does not change.
RemoteData(u) == u
NoData == 0
NoSync == [user |-> 0, via |-> "none", found |-> 0]

SyncInit ==
    /\ profileRows = <<>>
    /\ spc = [w \in Workers |-> "idle"]
    /\ srun = [w \in Workers |-> NoSync]
    /\ deliveries = [begun |-> 0, success |-> [u \in Users |-> 0]]

\* db.query(Profile).filter(Profile.user_id == user_id).first(): the position
\* of the first row of the user, 0 without one.
get_profile_by_user(u) ==
    IF \E i \in 1..Len(profileRows) : profileRows[i].user_id = u
        THEN CHOOSE i \in 1..Len(profileRows) :
                /\ profileRows[i].user_id = u
                /\ \A k \in 1..(i - 1) : profileRows[k].user_id # u
        ELSE 0

\* A delivery of sync_profile(user_id) to a worker (via = "task"), or a
\* LinkedInService.sync_profile call (via = "service"), up to its query for
\* the user's profile.
BeginSync(w, u, via) ==
    /\ spc[w] = "idle"
    /\ deliveries.begun < MaxDeliveries
    /\ spc' = [spc EXCEPT ![w] = "write"]
    /\ srun' = [srun EXCEPT ![w] = [user |-> u, via |-> via, found |-> get_profile_by_user(u)]]
    /\ deliveries' = [deliveries EXCEPT !.begun = @ + 1]
    /\ UNCHANGED <<moreVars, schedVars, credVars, appVars, vecVars, docVars, cleanVars, fanVars, profileRows>>

\* The end of a sync: the worker is free, a success is counted.
EndSync(w, ok) ==
    /\ spc' = [spc EXCEPT ![w] = "idle"]
    /\ srun' = [srun EXCEPT ![w] = NoSync]
    /\ deliveries' = IF ok THEN [deliveries EXCEPT !.success[srun[w].user] = @ + 1]
                     ELSE deliveries

\* The task's upsert: update_profile on the row found; without one,
\* create_profile(db, profile_in=profile_update) is called without its
\* user_id argument, raises, and the handler returns an error result.  A
\* failing commit (db = "error") ends in the same except.
sync_profile(w, db) ==
    /\ spc[w] = "write"
    /\ srun[w].via = "task"
    /\ IF srun[w].found # 0 /\ db = "ok"
          THEN /\ profileRows' = [profileRows EXCEPT ![srun[w].found].data = RemoteData(srun[w].user)]
               /\ EndSync(w, TRUE)
          ELSE /\ UNCHANGED profileRows
               /\ EndSync(w, FALSE)
    /\ UNCHANGED <<moreVars, schedVars, credVars, appVars, vecVars, docVars, cleanVars, fanVars>>

\* LinkedInService._process_profile_data: the row found, or a new
\* Profile(user_id=user_id), gets the fields of the profile data and is
\* committed; a failing commit leaves the table as it was.
_process_profile_data(w, db) ==
    /\ spc[w] = "write"
    /\ srun[w].via = "service"
    /\ IF db = "ok"
          THEN /\ profileRows' =
                    IF srun[w].found = 0
                        THEN Append(profileRows, [user_id |-> srun[w].user,
                                                  data |-> RemoteData(srun[w].user)])
                        ELSE [profileRows EXCEPT ![srun[w].found].data = RemoteData(srun[w].user)]
               /\ EndSync(w, TRUE)
          ELSE /\ UNCHANGED profileRows
               /\ EndSync(w, FALSE)
    /\ UNCHANGED <<moreVars, schedVars, credVars, appVars, vecVars, docVars, cleanVars, fanVars>>

NextSync ==
    \/ \E w \in Workers, u \in Users, via \in {"task", "service"} : BeginSync(w, u, via)
    \/ \E w \in Workers, db \in {"ok", "error"} : sync_profile(w, db)
    \/ \E w \in Workers, db \in {"ok", "error"} : _process_profile_data(w, db)

\* ------------------------------------------------------------- reindexing

\* The names under which the worker's task modules register their tasks.
RegisteredTasks ==
    {"admin.sync_all_profiles", "admin.search_jobs_for_all_users",
     "admin.find_matching_jobs_for_all_users", "admin.cleanup_old_data",
     "admin.generate_activity_report", "linkedin.sync_profile", "linkedin.search_jobs",
     "linkedin.apply_to_job", "llm.analyze_profile", "llm.match_job",
     "llm.generate_cover_letter", "llm.generate_resume", "llm.generate_message",
     "llm.prepare_interview"}

\* beat_schedule: its entries.
Entries ==
    {"sync-profiles-daily", "search-jobs-regularly", "update-vector-index-daily",
     "update-profile-vector-index-daily", "find-matching-jobs-daily",
     "cleanup-old-data-weekly"}

\* beat_schedule[entry]["task"]
TaskOf(entry) ==
    CASE entry = "sync-profiles-daily" -> "src.worker.tasks.admin.sync_all_profiles"
      [] entry = "search-jobs-regularly" -> "src.worker.tasks.admin.search_jobs_for_all_users"
      [] entry = "update-vector-index-daily" -> "src.worker.tasks.linkedin.bulk_index_jobs"
      [] entry = "update-profile-vector-index-daily" ->
             "src.worker.tasks.linkedin.bulk_index_profiles"
      [] entry = "find-matching-jobs-daily" ->
             "src.worker.tasks.admin.find_matching_jobs_for_all_users"
      [] entry = "cleanup-old-data-weekly" -> "src.worker.tasks.admin.cleanup_old_data"

EntryTypes == {"job", "profile"}

\* The entry that is to reindex the jobs / the profiles.
ReindexEntry(type) ==
    IF type = "job" THEN "update-vector-index-daily" ELSE "update-profile-vector-index-daily"

SchedInit ==
    beat = [entry \in Entries |-> [sent |-> 0, executed |-> 0, discarded |-> 0]]

\* The rows db.query(Job).all() / db.query(Profile).all() returns.
AllRows(type) ==
    IF type = "job"
        THEN {j \in JobIds : jobs[j] # NoJob}
        ELSE {q \in ProfileIds : profiles[q] # NoJob}

SourceText(type, i) == IF type = "job" THEN jobs[i] ELSE profiles[i]

NamespaceOf(type) == IF type = "job" THEN "jobs" ELSE "profiles"

\* The store st after an upsert of (k, embedding, meta) in namespace ns.
UpsertIn(st, ns, k, embedding, meta) ==
    IF vector_store_provider = "pinecone"
        THEN [st EXCEPT !.index[ns][k] = [vec |-> embedding, meta |-> meta]]
        ELSE [st EXCEPT !.vectors = DictSet(@, k, embedding), !.metadata[k] = meta]

\* The store and the count after the i-th row of the loop: index_job /
\* index_profile returns False for a row in failed and stores nothing.
IndexRow(st, type, k, failed) ==
    IF k \in failed
        THEN st
        ELSE [UpsertIn(st, NamespaceOf(type), k, get_embedding(SourceText(type, k)),
                       [type |-> type, text |-> SourceText(type, k)])
                 EXCEPT !.success_count = @ + 1]

\* A loop that ends at the first row whose indexing fails.
RECURSIVE ReindexUntilFailure(_, _, _, _, _)
ReindexUntilFailure(st, type, order, failed, i) ==
    IF i > Len(order) \/ order[i] \in failed
        THEN st
        ELSE ReindexUntilFailure(IndexRow(st, type, order[i], failed), type, order, failed, i + 1)

\* for job in jobs: if self.index_job(job): success_count += 1, from the
\* i-th row on; the rows in failed are those whose indexing returns False.
RECURSIVE ReindexFrom(_, _, _, _, _)
ReindexFrom(st, type, order, failed, i) ==
    IF i > Len(order)
        THEN st
        ELSE ReindexFrom(IndexRow(st, type, order[i], failed), type, order, failed, i + 1)

\* VectorStoreService.reindex_all_jobs / reindex_all_profiles, called by
\* hand: no endpoint, task or service of the application calls them.  It goes
\* through the rows in the order the query returned them and returns
\* (success_count, total_count).
reindex_all(type, order, failed) ==
    LET st == ReindexFrom([vectors |-> vectors, metadata |-> metadata, index |-> index,
                           success_count |-> 0], type, order, failed, 1)
    IN  /\ AllRows(type) # {}
        /\ vectors' = st.vectors
        /\ metadata' = st.metadata
        /\ index' = st.index
        /\ vecOp' = [op |-> "reindex_all", id |-> 0, ok |-> TRUE, rep |-> FALSE,
                     type |-> type, failed |-> failed,
                     success_count |-> st.success_count, total_count |-> Len(order)]
        /\ results' = <<>>
        /\ UNCHANGED <<auxVars, credVars, appVars, profiles, vector_store_provider>>

\* Celery beat sends the message of an entry at its time.  A worker runs a
\* message whose task name it has registered with the handler of that name;
\* it discards a message that names a task it has not registered, and
\* nothing else changes.
beat_send(entry) ==
    /\ beat[entry].sent < MaxBeats
    /\ IF TaskOf(entry) \in RegisteredTasks
          THEN beat' = [beat EXCEPT ![entry].sent = @ + 1, ![entry].executed = @ + 1]
          ELSE beat' = [beat EXCEPT ![entry].sent = @ + 1, ![entry].discarded = @ + 1]
    /\ UNCHANGED <<moreVars, credVars, appVars, vecVars, docVars, cleanVars, fanVars, syncVars>>

\* The two reindex entries.
Beat == \E type \in EntryTypes : beat_send(ReindexEntry(type))

NextBeat == \E entry \in Entries : beat_send(entry)

NextStale ==
    \/ \E j \in JobIds, t \in Texts : StoreJob(j, t)
    \/ \E q \in ProfileIds, t \in Texts : StoreProfile(q, t)
    \/ \E j \in JobIds, emb \in {"ok", "error"} : index_job(j, emb)
    \/ \E q \in ProfileIds, emb \in {"ok", "error"} : index_profile(q, emb)
    \/ \E type \in EntryTypes :
           \E order \in Orderings(AllRows(type)) :
               \E failed \in SUBSET AllRows(type) : reindex_all(type, order, failed)
    \/ Beat

\* ------------------------------------------------------ service instances

\* No service has been obtained since the jobs were indexed.
NoInstance == [made |-> FALSE, vectors |-> <<>>, metadata |-> [i \in AllIds |-> NoMeta]]

InstInit == later = NoInstance

\* get_vector_store_service(db) -- also through get_automation_service(db),
\* whose __init__ calls it: VectorStoreService(db=db), whose __init__ on the
\* in-memory backend sets self.vectors = {} and self.metadata = {}.
get_vector_store_service ==
    /\ later' = [made |-> TRUE, vectors |-> <<>>, metadata |-> [i \in AllIds |-> NoMeta]]
    /\ vecOp' = [op |-> "get_vector_store_service", id |-> 0, ok |-> TRUE, rep |-> FALSE]
    /\ results' = <<>>
    /\ UNCHANGED <<rateVars, hostVars, genVars, docVars, cleanVars, fanVars, syncVars, schedVars, credVars,
                   appVars, profiles, vector_store_provider, vectors, metadata, index>>

\* The in-memory branch of a query on the service inst: over inst's own
\* dicts.
InstanceQuery(inst, query_embedding, type, limit, min_score) ==
    LET keep(e) == /\ inst.metadata[e.id].type = type
                   /\ ScoreGE(_cosine_similarity(query_embedding, e.vec), min_score)
                   /\ RowExists(type, e.id)
        kept == SelectSeq(inst.vectors, keep)
        scored == [i \in 1..Len(kept) |->
                     [id |-> kept[i].id,
                      score |-> _cosine_similarity(query_embedding, kept[i].vec)]]
    IN  Take(SortDesc(scored), limit)

\* find_similar_jobs(profile_id, limit, min_score) on the later service (the
\* first step of its AutomationService's find_matching_jobs): the Pinecone
\* index is the one every service reads.
later_find_similar_jobs(q, limit, min_score) ==
    /\ later.made
    /\ IF profiles[q] = NoJob
          THEN results' = <<>>
          ELSE IF vector_store_provider = "pinecone"
                  THEN results' \in PineconeQuery(get_embedding(profiles[q]), "job", limit,
                                                  min_score)
                  ELSE results' = InstanceQuery(later, get_embedding(profiles[q]), "job", limit,
                                                min_score)
    /\ vecOp' = [op |-> "later_find_similar_jobs", id |-> q, ok |-> TRUE, rep |-> FALSE]
    /\ UNCHANGED <<auxVars, credVars, appVars, profiles, vector_store_provider, vectors,
                   metadata, index>>

NextInst ==
    \/ \E j \in JobIds, t \in Texts : StoreJob(j, t)
    \/ \E q \in ProfileIds, t \in Texts : StoreProfile(q, t)
    \/ \E j \in JobIds, emb \in {"ok", "fail"} : index_job(j, emb)
    \/ get_vector_store_service
    \/ \E q \in ProfileIds, limit \in 1..MaxLimit, m \in MinScores :
           later_find_similar_jobs(q, limit, m)

\* ------------------------------------------------------- document tasks

DocKinds == {"resume", "cover_letter"}

\* The columns of the Resume and of the CoverLetter model.
ColumnsOf(kind) ==
    IF kind = "resume"
        THEN {"id", "user_id", "name", "content", "file_url", "is_default", "created_at",
              "updated_at"}
        ELSE {"id", "user_id", "job_id", "name", "content", "file_url", "created_at",
              "updated_at"}

\* nullable=False without a default.
Required(kind) == {"user_id", "name", "content"}

\* Resume(user_id=, job_id=, content=, created_at=) and the same for
\* CoverLetter.
Kwargs == {"user_id", "job_id", "content", "created_at"}

\* A store that takes every row.
PersistsAny(kind) == TRUE

\* The row is constructed, added and committed: the declarative constructor
\* raises TypeError for a keyword that is no attribute of the model, and the
\* INSERT fails for a NOT NULL column without a value.
Persists(kind) == Kwargs \subseteq ColumnsOf(kind) /\ Required(kind) \subseteq Kwargs

TailorKeys ==
    {"keywords", "skills_to_emphasize", "experiences_to_highlight", "achievements_to_showcase",
     "sections", "general_recommendations", "raw_response"}

\* LLMService.tailor_resume: as generate_cover_letter, with its own fallback
\* (raw_response holds the answer).
LLMService_tailor_resume(ok, response) ==
    IF ~ok THEN ErrorDict
    ELSE IF IsJSON(response) THEN json_loads(response)
    ELSE [raised |-> FALSE, type |-> "dict", keys |-> TailorKeys,
          full_text |-> response, number |-> 0]

\* What the LLM did for the call: it was not called, the call failed, it
\* answered JSON, it answered other text.
LLMCase(found, ok, response) ==
    IF ~found THEN "none"
    ELSE IF ~ok THEN "failed"
    ELSE IF IsJSON(response) THEN "json" ELSE "fallback"

NoDocResult == [kind |-> "none", llm |-> "none", status |-> "none", content |-> Raised]

GenInit ==
    /\ documents = {}
    /\ docResult = NoDocResult

\* The task generate_resume / generate_cover_letter: it returns what
\* AutomationService.generate_resume / generate_cover_letter returns.  found:
\* the profile and the job exist.  The service does not look at what the LLM
\* service returned; every exception ends in an error result.
generate_document(kind, found, ok, response) ==
    LET content == IF kind = "resume" THEN LLMService_tailor_resume(ok, response)
                                      ELSE LLMService_generate_cover_letter(ok, response)
        llm == LLMCase(found, ok, response)
    IN  /\ IF found /\ Persists(kind)
               THEN /\ documents' = documents \cup
                                        {[kind |-> kind, llm |-> llm, content |-> content]}
                    /\ docResult' = [kind |-> kind, llm |-> llm, status |-> "success",
                                     content |-> content]
               ELSE /\ UNCHANGED documents
                    /\ docResult' = [kind |-> kind, llm |-> llm, status |-> "error",
                                     content |-> IF found THEN content ELSE Raised]
        /\ UNCHANGED <<rateVars, hostVars, instVars, docVars, cleanVars, fanVars, syncVars, schedVars,
                       credVars, appVars, vecVars>>

NextGen ==
    \E kind \in DocKinds, found \in BOOLEAN, ok \in BOOLEAN, response \in ResponseTexts :
        generate_document(kind, found, ok, response)

\* ---------------------------------------------------------- rate limiting

Requests == 1..NumRequests

\* What redis.get returns for a key that does not exist.
None == -1

\* What redis.ttl returns: -2 for a key that does not exist, -1 for a key
\* without expiry.
TTL_NoKey == -2
TTL_NoExpiry == -1

\* The key does not exist.
NoKey == [value |-> None, ttl |-> TTL_NoKey]

NoReturn == [is_limited |-> FALSE, count |-> 0, ttl |-> 0]

RateInit ==
    /\ redis = NoKey
    /\ rpc = [r \in Requests |-> "idle"]
    /\ rcount = [r \in Requests |-> None]
    /\ rret = [r \in Requests |-> NoReturn]
    /\ window = [passed |-> 0, age |-> 0]

\* rate_limit_dependency lets the request through: is_limited is False.
LetThrough == [window EXCEPT !.passed = @ + 1]

\* count = await redis.get(redis_key)
is_rate_limited_get(r) ==
    /\ rpc[r] = "idle"
    /\ rcount' = [rcount EXCEPT ![r] = redis.value]
    /\ rpc' = [rpc EXCEPT ![r] = "got"]
    /\ UNCHANGED <<redis, rret, window>>
    /\ UNCHANGED <<hostVars, instVars, genVars, schedVars, credVars, appVars, vecVars, docVars,
                   cleanVars, fanVars, syncVars>>

\* count is None: await redis.set(redis_key, 1, ex=self.seconds), and the
\* call returns False, 1, self.seconds.
is_rate_limited_set(r) ==
    /\ rpc[r] = "got"
    /\ rcount[r] = None
    /\ redis' = [value |-> 1, ttl |-> seconds]
    /\ rret' = [rret EXCEPT ![r] = [is_limited |-> FALSE, count |-> 1, ttl |-> seconds]]
    /\ window' = LetThrough
    /\ rpc' = [rpc EXCEPT ![r] = "idle"]
    /\ UNCHANGED rcount
    /\ UNCHANGED <<hostVars, instVars, genVars, schedVars, credVars, appVars, vecVars, docVars,
                   cleanVars, fanVars, syncVars>>

\* count is not None: ttl = await redis.ttl(redis_key); with count >=
\* self.times the call returns True, count, ttl, else it goes on to incr.
is_rate_limited_ttl(r) ==
    /\ rpc[r] = "got"
    /\ rcount[r] # None
    /\ rret' = [rret EXCEPT ![r] = [is_limited |-> rcount[r] >= times, count |-> rcount[r],
                                    ttl |-> redis.ttl]]
    /\ rpc' = [rpc EXCEPT ![r] = IF rcount[r] >= times THEN "idle" ELSE "incr"]
    /\ UNCHANGED <<redis, rcount, window>>
    /\ UNCHANGED <<hostVars, instVars, genVars, schedVars, credVars, appVars, vecVars, docVars,
                   cleanVars, fanVars, syncVars>>

\* INCR as Redis does it: a key that does not exist is created at 0, without
\* expiry, before it is incremented; an existing key keeps its time to live.
INCR(key) ==
    IF key = NoKey THEN [value |-> 1, ttl |-> TTL_NoExpiry]
                   ELSE [key EXCEPT !.value = @ + 1]

\* await redis.incr(redis_key), and the call returns False, count + 1, ttl.
is_rate_limited_incr(r) ==
    /\ rpc[r] = "incr"
    /\ redis' = INCR(redis)
    /\ rret' = [rret EXCEPT ![r] = [@ EXCEPT !.count = rcount[r] + 1]]
    /\ window' = LetThrough
    /\ rpc' = [rpc EXCEPT ![r] = "idle"]
    /\ UNCHANGED rcount
    /\ UNCHANGED <<hostVars, instVars, genVars, schedVars, credVars, appVars, vecVars, docVars,
                   cleanVars, fanVars, syncVars>>

\* One second passes: a key with an expiry comes one second nearer to it and is
\* deleted when it reaches it; the window that began with the first request let
\* through ends when it is `seconds` old.
Second ==
    /\ redis' = IF redis.ttl > 1 THEN [redis EXCEPT !.ttl = @ - 1]
                ELSE IF redis.ttl = 1 THEN NoKey
                ELSE redis
    /\ window' = IF window.passed = 0 THEN window
                 ELSE IF window.age + 1 >= seconds THEN [passed |-> 0, age |-> 0]
                 ELSE [window EXCEPT !.age = @ + 1]
    /\ UNCHANGED <<rpc, rcount, rret>>
    /\ UNCHANGED <<hostVars, instVars, genVars, schedVars, credVars, appVars, vecVars, docVars,
                   cleanVars, fanVars, syncVars>>

NextRate ==
    \/ \E r \in Requests : is_rate_limited_get(r)
    \/ \E r \in Requests : is_rate_limited_set(r)
    \/ \E r \in Requests : is_rate_limited_ttl(r)
    \/ \E r \in Requests : is_rate_limited_incr(r)
    \/ Second

NextCred ==
    \/ Tick
    \/ \E u \in Users : RevokeRefreshToken(u)
    \/ \E u \in Users : login_linkedin(u)
    \/ \E w \in Workers, u \in Users, k \in Kinds : BeginRun(w, u, k)
    \/ \E w \in Workers : refresh_access_token(w)
    \/ \E w \in Workers : StoreToken(w)
    \/ \E w \in Workers : ExternalCall(w)

\* ------------------------------------------------------- specifications

Init == CredInit /\ AppInit /\ VecInit /\ DocInit /\ CleanInit /\ FanInit /\ SyncInit /\ SchedInit
        /\ HostInit /\ InstInit /\ GenInit /\ RateInit

Next == NextCred \/ NextApp \/ NextVec \/ NextMatch \/ NextDoc \/ NextClean \/ NextFan \/ NextSync \/ NextStale
        \/ NextInst \/ NextGen \/ NextBeat \/ NextRate

SpecCred == Init /\ [][NextCred]_vars

SpecApp == Init /\ [][NextApp]_vars

\* The vector store alone, no LinkedIn account linked, the host on UTC.
VecOnlyInit == Init /\ utc_offset = 0 /\ \A u \in Users : users[u] = NoUser

SpecVec == VecOnlyInit /\ [][NextVec]_vars

\* Job matching over the vector store.
SpecMatch == VecOnlyInit /\ [][NextMatch]_vars

\* Document generation alone.
SpecDoc == VecOnlyInit /\ [][NextDoc]_vars

\* The retention task over the tables it cleans.
SpecClean == VecOnlyInit /\ [][NextClean]_vars

\* The admin fan-out tasks over the users table and the broker.
SpecFan == VecOnlyInit /\ [][NextFan]_vars

\* The profile sync over the profiles table.
SpecSync == VecOnlyInit /\ [][NextSync]_vars

\* The index under the beat schedule: beat sends every entry at its hour.
SpecStale == VecOnlyInit /\ [][NextStale]_vars /\ WF_vars(Beat)

\* Services obtained one after the other over one vector store backend.
SpecInst == VecOnlyInit /\ [][NextInst]_vars

\* The document tasks alone.
SpecGen == VecOnlyInit /\ [][NextGen]_vars

\* The beat schedule and the worker that receives its messages.
SpecBeat == VecOnlyInit /\ [][NextBeat]_vars

\* The rate limiter of one client over its Redis key.
SpecRate == VecOnlyInit /\ [][NextRate]_vars

Spec == Init /\ [][Next]_vars

\* ------------------------------------------------------ credential claims

\* The run has called the refresh endpoint for the expiry it found and got a
\* token back.
IssuedRefresh(w) == wseen[w] # NoTime /\ pc[w] \in {"store", "call"}

\* C1: two runs for the same user that overlap in time never both refresh the
\* same expired credential: of two concurrent acquisitions that found the
\* same stored expiry in the past, at most one calls the refresh endpoint.
C1_SingleRefresh ==
    \A w1, w2 \in Workers :
        (w1 # w2 /\ wuser[w1] = wuser[w2] /\ IssuedRefresh(w1) /\ IssuedRefresh(w2))
            => wseen[w1] # wseen[w2]

\* C2: a task whose handler met a transient external error has been
\* re-attempted and ends in the failed state: never in success, never after a
\* single attempt.
C2_RetryBound ==
    \A w \in Workers :
        (pc[w] = "done" /\ wkind[w] \in TaskKinds /\ werror[w] = "transient")
            => (tstate[w] = "failed" /\ attempts[w] > 1)

\* C3: once LinkedIn has rejected a user's refresh token as invalid, no run
\* that starts afterwards reaches the refresh call for that user until the
\* user has logged in with LinkedIn again.
C3_NoRefreshAfterInvalid ==
    \A w \in Workers : pc[w] = "refresh" => ~startedInvalid[w]

\* A run for user u begins on worker w in this step and goes past the token
\* check.
Acquires(w, u) ==
    /\ pc[w] \in {"idle", "done"}
    /\ pc'[w] \in {"refresh", "call"}
    /\ wuser'[w] = u

\* C21: a run that begins while the user's stored expiry lies in the future
\* goes on with the stored access token: it does not go to the refresh
\* endpoint, and the stored access token, refresh token and expiry stay as
\* they are.
C21_ValidTokenReused ==
    [][\A w \in Workers, u \in Users :
          (Acquires(w, u) /\ users[u].access # NoToken /\ users[u].expires_at > now)
              => /\ pc'[w] = "call"
                 /\ wlocal'[w].access = users[u].access
                 /\ users' = users]_vars

\* C24: a task that is waiting on LinkedIn (the token refresh, get_profile,
\* search_jobs) holds no database session, and a task that has returned has
\* closed the session it opened.
C24_NoSessionAcrossCall ==
    \A w \in Workers :
        /\ (wkind[w] \in TaskKinds /\ pc[w] \in {"refresh", "call"}) => ~session[w]
        /\ pc[w] \in {"idle", "done"} => ~session[w]

\* C25: a run that stores the answer of a successful refresh leaves the user
\* with a refresh token, the one of the answer or, when the answer has none,
\* the one stored before, whether the run is a task or a LinkedInService call.
C25_RefreshTokenKept ==
    [][\A w \in Workers :
          (pc[w] = "store" /\ pc'[w] = "call")
              => users'[wuser[w]].refresh =
                     (IF wtoken[w].refresh_token # NoToken
                         THEN wtoken[w].refresh_token
                         ELSE users[wuser[w]].refresh)]_vars

\* ----------------------------------------------------- application claims

\* C4: in every reachable state an application whose status is "submitted"
\* has a non-null external_application_id.
C4_SubmittedHasExternalId ==
    \A a \in AppIds :
        apps[a].status = "submitted" => apps[a].external_application_id # NoExternalId

\* The edges of the application state machine.
Edges == {<<"draft", "prepared">>, <<"prepared", "submitted">>,
          <<"prepared", "failed">>, <<"failed", "prepared">>}

\* C5: every step that changes the status of an existing application follows
\* one of the edges; in particular no step changes a submitted application.
C5_StatusEdges ==
    [][\A a \in AppIds :
          (apps[a] # NoApp /\ apps'[a].status # apps[a].status)
              => <<apps[a].status, apps'[a].status>> \in Edges]_vars

\* C6: after a submit_application call on a submittable application that did
\* not succeed, the application is "failed" and has no external id.
C6_FailedOnFailure ==
    (appResult.op = "submit_application" /\ appResult.status = "error"
        /\ appResult.was \in {"prepared", "failed"})
        => /\ apps[appResult.app].status = "failed"
           /\ apps[appResult.app].external_application_id = NoExternalId

\* ---------------------------------------------------- vector store claims

\* The entries the store holds under the id i of a job.
JobEntries(i) ==
    IF vector_store_provider = "pinecone"
        THEN IF index["jobs"][i].vec = NoVec THEN 0 ELSE 1
        ELSE Cardinality({n \in 1..Len(vectors) : vectors[n].id = i})

\* The lists the query of a job's own vector, top_k = 1, min_score = 0, may return.
SelfQuery(j) == QueryResults(get_embedding(jobs[j]), "job", 1, 0)

\* C7: index_job called for a job right after a successful index_job of the
\* same job, the job's data unchanged in between, leaves the store as the
\* first call left it: one entry for the id, the same vectors and metadata,
\* and, everything a query reads (the store, the backend, the rows) being the
\* same, the same answer to the self-query.
C7_IndexJobIdempotent ==
    [][\A j \in JobIds :
          (vecOp'.op = "index_job" /\ vecOp'.id = j /\ Repeats("index_job", j)) =>
              /\ vectors' = vectors
              /\ metadata' = metadata
              /\ index' = index
              /\ JobEntries(j)' = 1
              /\ <<vector_store_provider, jobs, profiles>>' = <<vector_store_provider, jobs, profiles>>]_vars

\* A job has been indexed twice in a row, both calls successful, and the
\* store holds one entry for it.
C7_Witness ==
    /\ vecOp.op = "index_job"
    /\ vecOp.ok
    /\ vecOp.rep
    /\ JobEntries(vecOp.id) = 1

\* C8: right after a job's vector is upserted, the query with that vector,
\* top_k = 1 and min_score = 0 returns the job first with score 1.0, whatever
\* the vector (the vector of zeros, a vector another entry has too).
C8_SelfQueryFirst ==
    (vecOp.op = "index_job" /\ vecOp.ok) =>
        \A r \in SelfQuery(vecOp.id) :
            /\ r # <<>>
            /\ r[1].id = vecOp.id
            /\ r[1].score = Scale

\* What the store holds for the job j / the profile q: vector and metadata.
JobEntry(j) ==
    IF vector_store_provider = "pinecone"
        THEN index["jobs"][j]
        ELSE IF KeyIndex(vectors, j) # 0 /\ metadata[j].type = "job"
                THEN [vec |-> vectors[KeyIndex(vectors, j)].vec, meta |-> metadata[j]]
                ELSE [vec |-> NoVec, meta |-> NoMeta]

ProfileEntry(q) ==
    IF vector_store_provider = "pinecone"
        THEN index["profiles"][q]
        ELSE IF KeyIndex(vectors, q) # 0 /\ metadata[q].type = "profile"
                THEN [vec |-> vectors[KeyIndex(vectors, q)].vec, meta |-> metadata[q]]
                ELSE [vec |-> NoVec, meta |-> NoMeta]

C10_RankedByScoreThenId ==
    \A i, k \in 1..Len(results) :
        i < k => \/ results[i].score > results[k].score
                 \/ /\ results[i].score = results[k].score
                    /\ results[i].id < results[k].id

\* ---------------------------------------------------- job matching claims

\* The last call was a find_matching_jobs that returned a list.
Matched == vecOp.op = "find_matching_jobs" /\ vecOp.ok

C13_DegradedFlag ==
    Matched =>
        \A i \in 1..Len(results) :
            results[i].llm.kind = "malformed" =>
                /\ 2 * results[i].llm_score = Scale
                /\ "degraded" \in DOMAIN results[i]
                /\ results[i].degraded

C15_FallbackKeepsRawText ==
    (llm_response.ok /\ ~IsJSON(llm_response.text)) =>
        /\ ~cover_letter.raised
        /\ cover_letter.type = "dict"
        /\ cover_letter.keys = CoverLetterKeys
        /\ cover_letter.full_text = llm_response.text

\* A cover letter was asked for and the LLM answered three characters that
\* are not JSON.
C15_Witness ==
    /\ llm_response.ok
    /\ ~IsJSON(llm_response.text)
    /\ Len(llm_response.text) = MaxText
    /\ cover_letter.full_text = llm_response.text

\* C23: when the LLM's answer does not parse as JSON, the dict the cover
\* letter call site returns has the key raw_response (as the fallbacks of
\* the other call sites have), holding the answer.
C23_FallbackHasRawResponse ==
    (llm_response.ok /\ ~IsJSON(llm_response.text)) =>
        /\ cover_letter.type = "dict"
        /\ "raw_response" \in cover_letter.keys

\* --------------------------------------------------------- cleanup claims

\* C16: a run of cleanup_old_data(days) deletes the rows whose timestamps are
\* strictly older than now - days and leaves every other row as it was: a
\* row exactly days old stays, a row days + 1 old goes, a row created or
\* updated since the cutoff stays.
C16_CleanupByCutoff ==
    [][cleanup'.runs = cleanup.runs + 1 =>
          \A r \in RowIds :
              rows[r] # NoRow =>
                  IF /\ rows[r].created_at < today - cleanup'.days
                     /\ rows[r].updated_at < today - cleanup'.days
                      THEN rows'[r] = NoRow
                      ELSE rows'[r] = rows[r]]_vars

\* --------------------------------------------------------- fan-out claims

\* C17: a fan-out task that succeeds has enqueued one child task for each
\* user of its query and for no other; and on every outcome the manifest it
\* returns (task_count, tasks) lists exactly the child tasks it enqueued.
C17_ManifestIsWhatWasEnqueued ==
    fanout.runs > 0 =>
        /\ fanout.status = "success" =>
              /\ {c.user_id : c \in fanout.enqueued} = fanout.users
              /\ Cardinality(fanout.enqueued) = Cardinality(fanout.users)
        /\ fanout.tasks = {[user_id |-> c.user_id, task_id |-> c.task_id] : c \in fanout.enqueued}
        /\ fanout.task_count = Cardinality(fanout.enqueued)
        /\ fanout.enqueued \subseteq queue

\* ------------------------------------------------------ task status claims

\* GET /task/<task_id>: the state Celery holds for the task instance.
task_status(w) ==
    [task_id |-> w,
     status |-> CASE tstate[w] = "success" -> "SUCCESS"
                  [] tstate[w] = "failed" -> "FAILURE"
                  [] OTHER -> "PENDING"]

\* The failures no retry can cure: no such user or no LinkedIn connection,
\* the token expired with nothing to refresh it, the refresh token rejected.
TerminalErrors == {"not_connected", "no_refresh", "auth"}

\* C18: a task that ended in a terminal failure is reported as failed by the
\* task-status endpoint.
C18_TerminalFailureReported ==
    \A w \in Workers :
        (pc[w] = "done" /\ wkind[w] \in TaskKinds /\ wresult[w] = "error"
            /\ werror[w] \in TerminalErrors) =>
                task_status(w).status = "FAILURE"

\* ---------------------------------------------------- profile sync claims

\* The rows of the profiles table that belong to user u.
ProfilesOf(u) == {i \in 1..Len(profileRows) : profileRows[i].user_id = u}

\* C19: once a sync of a user has succeeded and none is running, the user
\* has exactly one Profile row, holding LinkedIn's data, however many
\* deliveries there were and however they overlapped.
C19_OneProfilePerUser ==
    \A u \in Users :
        (deliveries.success[u] > 0 /\ \A w \in Workers : spc[w] = "idle") =>
            Cardinality(ProfilesOf(u)) = 1

\* ------------------------------------------------------- reindexing claims

\* The index holds a vector for the row, computed from a text the row no
\* longer has.
Stale(type, i) ==
    LET entry == IF type = "job" THEN JobEntry(i) ELSE ProfileEntry(i)
    IN  /\ i \in AllRows(type)
        /\ entry.vec # NoVec
        /\ entry # [vec |-> get_embedding(SourceText(type, i)),
                    meta |-> [type |-> type, text |-> SourceText(type, i)]]

\* C20: whenever a job's or a profile's vector is stale, it is eventually
\* replaced by the vector of the row's current text, under a beat schedule
\* that sends its reindex entries.
C20_StalenessBounded ==
    /\ \A j \in JobIds : Stale("job", j) ~> ~Stale("job", j)
    /\ \A q \in ProfileIds : Stale("profile", q) ~> ~Stale("profile", q)

\* C28: every entry of the beat schedule names a task the worker has
\* registered, and every message beat has sent for an entry was executed by
\* the handler of that task: none was discarded.
C28_EntriesRegistered ==
    \A entry \in Entries :
        beat[entry].sent > 0 =>
            /\ TaskOf(entry) \in RegisteredTasks
            /\ beat[entry].executed = beat[entry].sent

\* --------------------------------------------------- indexing failure claims

\* What index_job / index_profile stores for the row as it is now.
Fresh(type, i) ==
    [vec |-> get_embedding(SourceText(type, i)),
     meta |-> [type |-> type, text |-> SourceText(type, i)]]

Entry(type, i) == IF type = "job" THEN JobEntry(i) ELSE ProfileEntry(i)

\* C22: an index_job or index_profile whose embedding fails returns False and
\* leaves every vector and all metadata as they were; a reindex stores the
\* fresh vector of every row whose embedding succeeded, leaves the rows whose
\* embedding failed as they were, and returns the number of rows stored and
\* the number of rows.
C22_EmbeddingFailureSkips ==
    [][/\ (vecOp'.op \in {"index_job", "index_profile"} /\ ~vecOp'.ok)
              => <<vectors, metadata, index>>' = <<vectors, metadata, index>>
       /\ \A type \in EntryTypes :
              (vecOp'.op = "reindex_all" /\ vecOp'.type = type)
                  => /\ \A i \in AllRows(type) :
                            IF i \in vecOp'.failed
                                THEN Entry(type, i)' = Entry(type, i)
                                ELSE Entry(type, i)' = Fresh(type, i)
                     /\ vecOp'.total_count = Cardinality(AllRows(type))
                     /\ vecOp'.success_count =
                            Cardinality(AllRows(type) \ vecOp'.failed)]_vars

\* A reindex in which the embedding of one row failed and another row was
\* stored.
C22_Witness ==
    /\ vecOp.op = "reindex_all"
    /\ vecOp.failed # {}
    /\ vecOp.success_count > 0
    /\ vecOp.success_count < vecOp.total_count
    /\ \E i \in AllRows(vecOp.type) \ vecOp.failed : Entry(vecOp.type, i) = Fresh(vecOp.type, i)

\* ------------------------------------------------- service instance claims

\* C26: a query for jobs similar to a profile, made through a service
\* obtained after a job with the profile's text was indexed by index_job,
\* returns a match (the job scores 1.0; a text whose vector is all zeros
\* has no score).
C26_IndexedJobVisible ==
    (vecOp.op = "later_find_similar_jobs" /\ profiles[vecOp.id] # NoJob)
        => \A j \in JobIds :
               (/\ jobs[j] = profiles[vecOp.id]
                /\ Entry("job", j) = Fresh("job", j)
                /\ Norm(get_embedding(jobs[j])) # 0)
                   => results # <<>>

\* ---------------------------------------------------- document task claims

C29_AtMostTimes == window.passed <= times

\* C30: every rate-limit counter key that exists has an expiry: after any
\* interleaving of is_rate_limited calls with key expirations no counter is
\* left without a time to live.
C30_KeyHasExpiry == redis # NoKey => redis.ttl >= 1

====
